---- MODULE Spec2Model ----
(***************************************************************************)
(* Model of the A02YYUW ultrasonic sensor to MQTT bridge (src/main.py).    *)
(*                                                                         *)
(* Two threads run the code of SensorMQTTBridge: the main thread (main(),  *)
(* __init__, run(), and the signal handler that Python runs in the main    *)
(* thread between two statements) and the network thread of the MQTT       *)
(* client (started by loop_start()), which runs _read_trigger_executed for *)
(* every message delivered on the trigger topic.  Both call                *)
(* _read_distance, which is serialised by serial_lock.                     *)
(*                                                                         *)
(* Time is counted in seconds.  The code stores readings of time.time()    *)
(* and compares their difference with a limit; the model stores the        *)
(* difference itself, the age of the reading: read_age[t] is               *)
(* time.time() - read_start_time, push_age is                              *)
(* time.time() - last_mqtt_push_time.  Tick lets one second pass: every    *)
(* age grows by one, up to the first value above the limit it is compared  *)
(* with, and the remaining time of a running time.sleep() shrinks by one.  *)
(* Tick can happen between any two steps.  The serial device, the MQTT     *)
(* broker and the operating system (signals) are the environment.          *)
(***************************************************************************)
EXTENDS Integers, Sequences, FiniteSets, TLC

(***************************************************************************)
(* Program constants                                                       *)
(***************************************************************************)
READ_TIMEOUT_SECONDS == 1
READ_INTERVAL_SECONDS == 1
READ_MIN_VALUE_MM == 30
READ_MAX_VALUE_MM == 4500
START_SEQUENCE_BYTE == 255
FRAME_BYTES == 4
VALUE_ERROR_SLEEP_SECONDS == 1
TIMEOUT_ERROR_SLEEP_SECONDS == 5
\* the largest distance a frame can carry (two data bytes)
DISTANCE_MASK == 65535

(***************************************************************************)
(* Bounds of the model                                                     *)
(***************************************************************************)
\* capacity of the input buffer of the serial device, in bytes
MaxBuf == 6
\* number of messages other MQTT clients publish to the trigger topic
MaxExt == 1
\* the configured --mqtt-push-interval, in seconds
MqttPushInterval == 2
\* length of the longest buffer over BufferBytes handed to the decoder
MaxDecLen == 7
\* number of complete frames in a buffer that holds a train of frames
MaxFrames == 2

Threads == {"main", "trig"}

Min(a, b) == IF a < b THEN a ELSE b

Max(S) == CHOOSE x \in S : \A y \in S : y <= x

\* an age one second later; beyond limit + 1 every age compares alike
Older(age, limit) == Min(age + 1, limit + 1)

\* the age of a reading of the clock that lies further back than any limit:
\* the age of 0.0, the start of 1970
Ancient(limit) == limit + 1

\* the age of what has not happened yet
Never == 0 - 1

(***************************************************************************)
(* The serial device: what the sensor (or line noise) can append to the    *)
(* input buffer in one write.                                              *)
(***************************************************************************)
\* PTYMock._frame_for_distance
FrameForDistance(distance_mm) ==
    LET distance == (IF distance_mm < 0 THEN 0 ELSE distance_mm) % 65536
        data_h   == (distance \div 256) % 256
        data_l   == distance % 256
        checksum == (255 + data_h + data_l) % 256
    IN  <<255, data_h, data_l, checksum>>

\* a frame whose fourth byte is not the checksum of the first three
CorruptFrame(distance_mm) ==
    LET f == FrameForDistance(distance_mm)
    IN  <<f[1], f[2], f[3], (f[4] + 226) % 256>>

DeviceChunks ==
    { FrameForDistance(30), FrameForDistance(29), FrameForDistance(4501),
      CorruptFrame(30), <<0, 0>> }

(***************************************************************************)
(* The frame decoder: lines 149-179 of _read_distance, a function of the   *)
(* drained buffer.  The ValueError messages are named as in the            *)
(* specification: InsufficientData, NoStartSequence, ChecksumMismatch,     *)
(* BelowLowerLimit, AboveUpperLimit.                                       *)
(***************************************************************************)
NoResult == [kind |-> "None", dist |-> 0, data |-> <<>>]

Failure(k) == [kind |-> k, dist |-> 0, data |-> <<>>]

\* a scan that runs from the start of the buffer and stops at the first header
LastDataIndex_First(data_buffer) ==
    LET length == Len(data_buffer)
        found  == { i \in 0..(length - 1) :
                       /\ data_buffer[i + 1] = START_SEQUENCE_BYTE
                       /\ (i + FRAME_BYTES) <= length }
    IN  IF found = {} THEN -1
        ELSE CHOOSE i \in found : \A j \in found : i <= j

\* lines 155-159: zero-based index of the last START_SEQUENCE_BYTE that
\* starts 4 bytes, or -1
LastDataIndex(data_buffer) ==
    LET length == Len(data_buffer)
        found  == { i \in 0..(length - 1) :
                       /\ data_buffer[i + 1] = START_SEQUENCE_BYTE
                       /\ (i + FRAME_BYTES) <= length }
    IN  IF found = {} THEN -1 ELSE Max(found)

\* line 169
SumCheck(data) == (data[1] + data[2] + data[3]) % 256

\* line 172
DistanceMm(data) == (data[2] * 256) + data[3]

\* a lower limit that rejects 30
BelowLowerLimit_Exclusive(distance_mm) == distance_mm <= READ_MIN_VALUE_MM

\* line 173
BelowLowerLimit(distance_mm) == distance_mm < READ_MIN_VALUE_MM

\* an upper limit that lets 4501 through
AboveUpperLimit_OffByOne(distance_mm) == distance_mm > READ_MAX_VALUE_MM + 1

\* line 175
AboveUpperLimit(distance_mm) == distance_mm > READ_MAX_VALUE_MM

\* a decoder that checks the range before the checksum
DecodeFrame_RangeFirst(data) ==
    IF BelowLowerLimit(DistanceMm(data))
    THEN Failure("BelowLowerLimit")
    ELSE IF AboveUpperLimit(DistanceMm(data))
    THEN Failure("AboveUpperLimit")
    ELSE IF SumCheck(data) # data[4]
    THEN Failure("ChecksumMismatch")
    ELSE [kind |-> "Ok", dist |-> DistanceMm(data), data |-> data]

\* lines 169-179
DecodeFrame(data) ==
    IF SumCheck(data) # data[4]
    THEN Failure("ChecksumMismatch")
    ELSE IF BelowLowerLimit(DistanceMm(data))
    THEN Failure("BelowLowerLimit")
    ELSE IF AboveUpperLimit(DistanceMm(data))
    THEN Failure("AboveUpperLimit")
    ELSE [kind |-> "Ok", dist |-> DistanceMm(data), data |-> data]

\* a decoder without the length check of line 151
Decode_NoLengthCheck(data_buffer) ==
    LET last_data_index == LastDataIndex(data_buffer)
    IN  IF last_data_index = -1
        THEN Failure("NoStartSequence")
        ELSE DecodeFrame(SubSeq(data_buffer, last_data_index + 1,
                                last_data_index + FRAME_BYTES))

\* lines 149-179
Decode(data_buffer) ==
    LET length == Len(data_buffer)
        last_data_index == LastDataIndex(data_buffer)
    IN  IF length < FRAME_BYTES
        THEN Failure("InsufficientData")
        ELSE IF last_data_index = -1
        THEN Failure("NoStartSequence")
        ELSE DecodeFrame(SubSeq(data_buffer, last_data_index + 1,
                                last_data_index + FRAME_BYTES))

ValueErrors ==
    { "InsufficientData", "NoStartSequence", "ChecksumMismatch",
      "BelowLowerLimit", "AboveUpperLimit" }

(***************************************************************************)
(* State                                                                   *)
(***************************************************************************)
VARIABLES
    in_buf,       \* input buffer of the serial device (in_waiting = Len)
    ser,          \* self.ser: "none", "open", "closed"
    mqtt_client,  \* self.mqtt_client: "none", "connected", "disconnected"
    handlers,     \* signal handlers registered
    running,      \* self.running
    serial_lock,  \* self.serial_lock: "free" or the thread that holds it
    pc,           \* position of each thread
    read_age,     \* time.time() - read_start_time of each thread's read
    result,       \* outcome of the last _read_distance call, per thread
    push_age,     \* time.time() - last_mqtt_push_time
    gate_age,     \* time since the periodic publish that line 222 has not
                  \* stamped yet, Never outside lines 221-222
    sleep_left,   \* remaining seconds of the time.sleep() of the main thread
    inbox,        \* messages of the trigger topic not yet delivered
    cb_msg,       \* payload of the message the callback is handling
    cb_log,       \* publishes of the last callback, in order
    value_out,    \* last payload published to the value topic, 0 if none
    signalled,    \* a termination signal was delivered
    n_ext         \* messages published by other clients so far

vars ==
    << in_buf, ser, mqtt_client, handlers, running, serial_lock, pc, read_age,
       result, push_age, gate_age, sleep_left, inbox, cb_msg, cb_log,
       value_out, signalled, n_ext >>

NoMsg == ""

\* payloads other clients publish to the trigger topic: the trigger and
\* anything else; "0" is what the bridge itself publishes
Payloads == {"1", "2"}

Signals == {"SIGINT", "SIGTERM"}

\* the process is alive until main() returns or dies of an uncaught exception
Alive == pc["main"] \notin {"stopped", "crashed"}

\* positions inside the `with self.serial_lock` block of _read_distance
Region == {"poll", "pollsleep", "drain"}

Init ==
    /\ in_buf = <<>>
    /\ ser = "none"
    /\ mqtt_client = "none"
    /\ handlers = FALSE
    /\ running = FALSE
    /\ serial_lock = "free"
    /\ pc = [t \in Threads |-> IF t = "main" THEN "create_serial" ELSE "t_off"]
    /\ read_age = [t \in Threads |-> 0]
    /\ result = [t \in Threads |-> NoResult]
    /\ push_age = Ancient(MqttPushInterval)
    /\ gate_age = Never
    /\ sleep_left = 0
    /\ inbox = <<>>
    /\ cb_msg = NoMsg
    /\ cb_log = <<>>
    /\ value_out = 0
    /\ signalled = FALSE
    /\ n_ext = 0

(***************************************************************************)
(* Environment                                                             *)
(***************************************************************************)
\* one second passes
Tick ==
    /\ Alive
    /\ read_age' = [t \in Threads |->
                      IF pc[t] \in Region
                      THEN Older(read_age[t], READ_TIMEOUT_SECONDS)
                      ELSE read_age[t]]
    /\ push_age' = Older(push_age, MqttPushInterval)
    /\ gate_age' = IF gate_age = Never
                   THEN Never
                   ELSE Older(gate_age, MqttPushInterval)
    /\ sleep_left' = IF sleep_left > 0 THEN sleep_left - 1 ELSE 0
    /\ UNCHANGED << in_buf, ser, mqtt_client, handlers, running, serial_lock,
                    pc, result, inbox, cb_msg, cb_log, value_out, signalled,
                    n_ext >>

\* the sensor (or line noise) appends bytes to the input buffer
DeviceWrite(chunk) ==
    /\ Alive
    /\ ser = "open"
    /\ Len(in_buf) + Len(chunk) <= MaxBuf
    /\ in_buf' = in_buf \o chunk
    /\ UNCHANGED << ser, mqtt_client, handlers, running, serial_lock, pc,
                    read_age, result, push_age, gate_age, sleep_left, inbox,
                    cb_msg, cb_log, value_out, signalled, n_ext >>

\* another MQTT client publishes to the trigger topic
ExternalPublish(payload) ==
    /\ Alive
    /\ mqtt_client = "connected"
    /\ n_ext < MaxExt
    /\ n_ext' = n_ext + 1
    /\ inbox' = Append(inbox, payload)
    /\ UNCHANGED << in_buf, ser, mqtt_client, handlers, running, serial_lock,
                    pc, read_age, result, push_age, gate_age, sleep_left,
                    cb_msg, cb_log, value_out, signalled >>

\* main._signal_handler -> SensorMQTTBridge.stop (lines 202-203, 264-266)
Signal(sig) ==
    /\ Alive
    /\ handlers
    /\ sig \in Signals
    /\ running' = FALSE
    /\ signalled' = TRUE
    /\ UNCHANGED << in_buf, ser, mqtt_client, handlers, serial_lock, pc,
                    read_age, result, push_age, gate_age, sleep_left, inbox,
                    cb_msg, cb_log, value_out, n_ext >>

(***************************************************************************)
(* _read_distance (lines 138-179), run by either thread.  self.ser is      *)
(* never None after __init__, so line 139 never raises.                    *)
(***************************************************************************)
\* position of the caller after _read_distance returns or raises
ReturnPc(self) == IF self = "main" THEN "m_result" ELSE "t_result"

\* a lock that never makes the caller wait
CanAcquire_NoWait(lock) == lock \in {"free"} \cup Threads

\* threading.Lock (line 141): acquire blocks until the lock is free
CanAcquire(lock) == lock = "free"

\* a wait without a timeout
TimedOut_Never(age) == FALSE

\* line 145
TimedOut(age) == age > READ_TIMEOUT_SECONDS

\* a lock that is released on return but not when an exception is raised
Leave_HeldOnError(self, r) ==
    /\ result' = [result EXCEPT ![self] = r]
    /\ serial_lock' = IF r.kind = "Ok" THEN "free" ELSE serial_lock
    /\ read_age' = [read_age EXCEPT ![self] = 0]
    /\ pc' = [pc EXCEPT ![self] = ReturnPc(self)]

\* leaving the `with` block of line 141, by return or by exception
Leave(self, r) ==
    /\ result' = [result EXCEPT ![self] = r]
    /\ serial_lock' = "free"
    /\ read_age' = [read_age EXCEPT ![self] = 0]
    /\ pc' = [pc EXCEPT ![self] = ReturnPc(self)]

\* lines 141-142: enter the `with` block and start the timeout clock
Lock(self) ==
    /\ Alive
    /\ pc[self] = "lock"
    /\ CanAcquire(serial_lock)
    /\ serial_lock' = self
    /\ read_age' = [read_age EXCEPT ![self] = 0]
    /\ pc' = [pc EXCEPT ![self] = "poll"]
    /\ UNCHANGED << in_buf, ser, mqtt_client, handlers, running, result,
                    push_age, gate_age, sleep_left, inbox, cb_msg, cb_log,
                    value_out, signalled, n_ext >>

\* line 143: the loop condition; in_waiting raises an OSError when the port
\* was closed or the device is gone
Poll(self) ==
    /\ Alive
    /\ pc[self] = "poll"
    /\ \E io_ok \in BOOLEAN :
          IF ser # "open" \/ ~io_ok
          THEN Leave(self, Failure("SerialError"))
          ELSE /\ pc' = [pc EXCEPT ![self] =
                           IF Len(in_buf) < FRAME_BYTES
                           THEN "pollsleep" ELSE "drain"]
               /\ UNCHANGED << serial_lock, read_age, result >>
    /\ UNCHANGED << in_buf, ser, mqtt_client, handlers, running, push_age,
                    gate_age, sleep_left, inbox, cb_msg, cb_log, value_out,
                    signalled, n_ext >>

\* lines 144-146: after the short sleep, raise TimeoutError or poll again
PollSleep(self) ==
    /\ Alive
    /\ pc[self] = "pollsleep"
    /\ IF TimedOut(read_age[self])
       THEN Leave(self, Failure("ReadTimeout"))
       ELSE /\ pc' = [pc EXCEPT ![self] = "poll"]
            /\ UNCHANGED << serial_lock, read_age, result >>
    /\ UNCHANGED << in_buf, ser, mqtt_client, handlers, running, push_age,
                    gate_age, sleep_left, inbox, cb_msg, cb_log, value_out,
                    signalled, n_ext >>

\* a drain that reads up to the end of the selected frame only and leaves
\* the bytes behind it in the input buffer
Drain_KeepsTail(self) ==
    /\ Alive
    /\ pc[self] = "drain"
    /\ IF ser # "open"
       THEN /\ Leave(self, Failure("SerialError"))
            /\ UNCHANGED in_buf
       ELSE LET data_buffer == in_buf
                last_data_index == LastDataIndex(data_buffer)
            IN  /\ in_buf' = IF last_data_index = -1
                             THEN <<>>
                             ELSE SubSeq(data_buffer,
                                         last_data_index + FRAME_BYTES + 1,
                                         Len(data_buffer))
                /\ Leave(self, Decode(data_buffer))
    /\ UNCHANGED << ser, mqtt_client, handlers, running, push_age, gate_age,
                    sleep_left, inbox, cb_msg, cb_log, value_out, signalled,
                    n_ext >>

\* lines 148-179: read every byte that is available now, decode the buffer,
\* return the distance or raise ValueError
Drain(self) ==
    /\ Alive
    /\ pc[self] = "drain"
    /\ IF ser # "open"
       THEN /\ Leave(self, Failure("SerialError"))
            /\ UNCHANGED in_buf
       ELSE LET data_buffer == in_buf
            IN  /\ in_buf' = <<>>
                /\ Leave(self, Decode(data_buffer))
    /\ UNCHANGED << ser, mqtt_client, handlers, running, push_age, gate_age,
                    sleep_left, inbox, cb_msg, cb_log, value_out, signalled,
                    n_ext >>

ReadDistance(self) ==
    \/ Lock(self)
    \/ Poll(self)
    \/ PollSleep(self)
    \/ Drain(self)

(***************************************************************************)
(* The main thread: main() and SensorMQTTBridge.__init__ / run()           *)
(***************************************************************************)
\* line 97: _create_serial; an exception leaves main() uncaught
CreateSerial ==
    /\ pc["main"] = "create_serial"
    /\ \E ok \in BOOLEAN :
          IF ok
          THEN /\ ser' = "open"
               /\ pc' = [pc EXCEPT !["main"] = "create_mqtt"]
          ELSE /\ ser' = ser
               /\ pc' = [pc EXCEPT !["main"] = "crashed"]
    /\ UNCHANGED << in_buf, mqtt_client, handlers, running, serial_lock,
                    read_age, result, push_age, gate_age, sleep_left, inbox,
                    cb_msg, cb_log, value_out, signalled, n_ext >>

\* lines 98-99: _create_mqtt_client connects and subscribes
CreateMqtt ==
    /\ pc["main"] = "create_mqtt"
    /\ \E ok \in BOOLEAN :
          IF ok
          THEN /\ mqtt_client' = "connected"
               /\ pc' = [pc EXCEPT !["main"] = "register_signals"]
          ELSE /\ mqtt_client' = mqtt_client
               /\ pc' = [pc EXCEPT !["main"] = "crashed"]
    /\ running' = FALSE
    /\ UNCHANGED << in_buf, ser, handlers, serial_lock, read_age, result,
                    push_age, gate_age, sleep_left, inbox, cb_msg, cb_log,
                    value_out, signalled, n_ext >>

\* lines 268-269
RegisterSignals ==
    /\ pc["main"] = "register_signals"
    /\ handlers' = TRUE
    /\ pc' = [pc EXCEPT !["main"] = "run"]
    /\ UNCHANGED << in_buf, ser, mqtt_client, running, serial_lock, read_age,
                    result, push_age, gate_age, sleep_left, inbox, cb_msg,
                    cb_log, value_out, signalled, n_ext >>

\* line 206
RunStart ==
    /\ pc["main"] = "run"
    /\ running' = TRUE
    /\ pc' = [pc EXCEPT !["main"] = "loop_start"]
    /\ UNCHANGED << in_buf, ser, mqtt_client, handlers, serial_lock,
                    read_age, result, push_age, gate_age, sleep_left, inbox,
                    cb_msg, cb_log, value_out, signalled, n_ext >>

\* lines 208-215: start the network thread; an exception of loop_start or
\* _setup_mqtt_logging is caught at line 230
LoopStart ==
    /\ pc["main"] = "loop_start"
    /\ \E ok \in BOOLEAN :
          IF ok
          THEN /\ pc' = [pc EXCEPT !["main"] = "while", !["trig"] = "t_idle"]
               /\ push_age' = Ancient(MqttPushInterval)
          ELSE /\ pc' = [pc EXCEPT !["main"] = "close_ser"]
               /\ UNCHANGED push_age
    /\ UNCHANGED << in_buf, ser, mqtt_client, handlers, running, serial_lock,
                    read_age, result, gate_age, sleep_left, inbox, cb_msg,
                    cb_log, value_out, signalled, n_ext >>

\* line 217
While ==
    /\ pc["main"] = "while"
    /\ pc' = [pc EXCEPT !["main"] = IF running THEN "lock" ELSE "close_ser"]
    /\ UNCHANGED << in_buf, ser, mqtt_client, handlers, running, serial_lock,
                    read_age, result, push_age, gate_age, sleep_left, inbox,
                    cb_msg, cb_log, value_out, signalled, n_ext >>

\* the same pause after every failed read
BackOff_Flat(kind) == VALUE_ERROR_SLEEP_SECONDS

\* seconds slept after a failed read (lines 226, 229)
BackOff(kind) ==
    IF kind = "ReadTimeout"
    THEN TIMEOUT_ERROR_SLEEP_SECONDS
    ELSE VALUE_ERROR_SLEEP_SECONDS

\* a handler without the `except TimeoutError` clause
Recovered_NoTimeout(kind) == kind \in ValueErrors

\* the except clauses of the loop (lines 224-231): ValueError and
\* TimeoutError stay in the loop, any other exception leaves it
Recovered(kind) == kind \in ValueErrors \cup {"ReadTimeout"}

\* a gate that opens already at exactly one interval
ShouldPublish_NotStrict(age, interval) == age >= interval

\* line 220
ShouldPublish(age, interval) == age > interval

\* a loop whose handlers swallow every exception of the read
MainResult_SwallowsAll ==
    /\ pc["main"] = "m_result"
    /\ LET r == result["main"]
       IN  IF r.kind = "Ok"
           THEN IF ShouldPublish(push_age, MqttPushInterval)
                THEN /\ value_out' = r.dist
                     /\ gate_age' = 0
                     /\ pc' = [pc EXCEPT !["main"] = "stamp"]
                     /\ UNCHANGED sleep_left
                ELSE /\ sleep_left' = READ_INTERVAL_SECONDS
                     /\ pc' = [pc EXCEPT !["main"] = "sleep"]
                     /\ UNCHANGED << value_out, gate_age >>
           ELSE /\ sleep_left' = BackOff(r.kind)
                /\ pc' = [pc EXCEPT !["main"] = "sleep"]
                /\ UNCHANGED << value_out, gate_age >>
    /\ result' = [result EXCEPT !["main"] = NoResult]
    /\ UNCHANGED << in_buf, ser, mqtt_client, handlers, running, serial_lock,
                    read_age, push_age, inbox, cb_msg, cb_log, signalled,
                    n_ext >>

\* lines 219-231: the outcome of the read in the periodic loop; on success
\* the publish gate and _push_mqtt_distance_value
MainResult ==
    /\ pc["main"] = "m_result"
    /\ LET r == result["main"]
       IN  IF r.kind = "Ok"
           THEN IF ShouldPublish(push_age, MqttPushInterval)
                THEN /\ value_out' = r.dist
                     /\ gate_age' = 0
                     /\ pc' = [pc EXCEPT !["main"] = "stamp"]
                     /\ UNCHANGED sleep_left
                ELSE /\ sleep_left' = READ_INTERVAL_SECONDS
                     /\ pc' = [pc EXCEPT !["main"] = "sleep"]
                     /\ UNCHANGED << value_out, gate_age >>
           ELSE IF Recovered(r.kind)
           THEN /\ sleep_left' = BackOff(r.kind)
                /\ pc' = [pc EXCEPT !["main"] = "sleep"]
                /\ UNCHANGED << value_out, gate_age >>
           ELSE /\ pc' = [pc EXCEPT !["main"] = "close_ser"]
                /\ UNCHANGED << value_out, gate_age, sleep_left >>
    /\ result' = [result EXCEPT !["main"] = NoResult]
    /\ UNCHANGED << in_buf, ser, mqtt_client, handlers, running, serial_lock,
                    read_age, push_age, inbox, cb_msg, cb_log, signalled,
                    n_ext >>

\* lines 222-223: read the clock again, store it, start the sleep
Stamp ==
    /\ pc["main"] = "stamp"
    /\ push_age' = 0
    /\ gate_age' = Never
    /\ sleep_left' = READ_INTERVAL_SECONDS
    /\ pc' = [pc EXCEPT !["main"] = "sleep"]
    /\ UNCHANGED << in_buf, ser, mqtt_client, handlers, running, serial_lock,
                    read_age, result, inbox, cb_msg, cb_log, value_out,
                    signalled, n_ext >>

\* time.sleep returns (lines 223, 226, 229)
Sleep ==
    /\ pc["main"] = "sleep"
    /\ sleep_left = 0
    /\ pc' = [pc EXCEPT !["main"] = "while"]
    /\ UNCHANGED << in_buf, ser, mqtt_client, handlers, running, serial_lock,
                    read_age, result, push_age, gate_age, sleep_left, inbox,
                    cb_msg, cb_log, value_out, signalled, n_ext >>

\* a shutdown whose two releases share one try block
CloseSer_Aborting ==
    /\ pc["main"] = "close_ser"
    /\ \E ok \in BOOLEAN :
          IF ok
          THEN /\ ser' = "closed"
               /\ pc' = [pc EXCEPT !["main"] = "disconnect"]
          ELSE /\ ser' = ser
               /\ pc' = [pc EXCEPT !["main"] = "stopped"]
    /\ UNCHANGED << in_buf, mqtt_client, handlers, running, serial_lock,
                    read_age, result, push_age, gate_age, sleep_left, inbox,
                    cb_msg, cb_log, value_out, signalled, n_ext >>

\* lines 233-238: close the serial port; an exception is swallowed
CloseSer ==
    /\ pc["main"] = "close_ser"
    /\ \E ok \in BOOLEAN : ser' = IF ok THEN "closed" ELSE ser
    /\ pc' = [pc EXCEPT !["main"] = "disconnect"]
    /\ UNCHANGED << in_buf, mqtt_client, handlers, running, serial_lock,
                    read_age, result, push_age, gate_age, sleep_left, inbox,
                    cb_msg, cb_log, value_out, signalled, n_ext >>

\* lines 239-245: disconnect; an exception is swallowed; run() returns
Disconnect ==
    /\ pc["main"] = "disconnect"
    /\ \E ok \in BOOLEAN :
          mqtt_client' = IF ok THEN "disconnected" ELSE mqtt_client
    /\ pc' = [pc EXCEPT !["main"] = "stopped"]
    /\ UNCHANGED << in_buf, ser, handlers, running, serial_lock, read_age,
                    result, push_age, gate_age, sleep_left, inbox, cb_msg,
                    cb_log, value_out, signalled, n_ext >>

(***************************************************************************)
(* The network thread: _read_trigger_executed (lines 181-195)              *)
(***************************************************************************)
\* the MQTT client hands the next message of the trigger topic to the callback
Deliver ==
    /\ Alive
    /\ pc["trig"] = "t_idle"
    /\ mqtt_client = "connected"
    /\ inbox # <<>>
    /\ cb_msg' = Head(inbox)
    /\ inbox' = Tail(inbox)
    /\ cb_log' = <<>>
    /\ pc' = [pc EXCEPT !["trig"] = "t_callback"]
    /\ UNCHANGED << in_buf, ser, mqtt_client, handlers, running, serial_lock,
                    read_age, result, push_age, gate_age, sleep_left,
                    value_out, signalled, n_ext >>

\* a callback that reads on every payload
IsTrigger_Any(payload) == payload \in {"0", "1", "2"}

\* line 183
IsTrigger(payload) == payload = "1"

\* lines 182-183
Callback ==
    /\ Alive
    /\ pc["trig"] = "t_callback"
    /\ IF IsTrigger(cb_msg)
       THEN /\ pc' = [pc EXCEPT !["trig"] = "lock"]
            /\ UNCHANGED cb_msg
       ELSE /\ pc' = [pc EXCEPT !["trig"] = "t_idle"]
            /\ cb_msg' = NoMsg
    /\ UNCHANGED << in_buf, ser, mqtt_client, handlers, running, serial_lock,
                    read_age, result, push_age, gate_age, sleep_left, inbox,
                    cb_log, value_out, signalled, n_ext >>

\* a callback whose publish also restarts the periodic interval
TrigResult_Stamps ==
    /\ Alive
    /\ pc["trig"] = "t_result"
    /\ LET r == result["trig"]
       IN  IF r.kind = "Ok"
           THEN /\ value_out' = r.dist
                /\ cb_log' = Append(cb_log, "value")
                /\ pc' = [pc EXCEPT !["trig"] = "t_ack"]
                /\ push_age' = 0
                /\ UNCHANGED cb_msg
           ELSE /\ pc' = [pc EXCEPT !["trig"] =
                            IF Recovered(r.kind) THEN "t_idle" ELSE "t_dead"]
                /\ cb_msg' = NoMsg
                /\ UNCHANGED << value_out, cb_log, push_age >>
    /\ result' = [result EXCEPT !["trig"] = NoResult]
    /\ UNCHANGED << in_buf, ser, mqtt_client, handlers, running, serial_lock,
                    read_age, gate_age, sleep_left, inbox, signalled, n_ext >>

\* lines 186-194: the outcome of the read in the callback; ValueError and
\* TimeoutError are logged, any other exception ends the network thread; on
\* success _push_mqtt_distance_value
TrigResult ==
    /\ Alive
    /\ pc["trig"] = "t_result"
    /\ LET r == result["trig"]
       IN  IF r.kind = "Ok"
           THEN /\ value_out' = r.dist
                /\ cb_log' = Append(cb_log, "value")
                /\ pc' = [pc EXCEPT !["trig"] = "t_ack"]
                /\ UNCHANGED cb_msg
           ELSE /\ pc' = [pc EXCEPT !["trig"] =
                            IF Recovered(r.kind) THEN "t_idle" ELSE "t_dead"]
                /\ cb_msg' = NoMsg
                /\ UNCHANGED << value_out, cb_log >>
    /\ result' = [result EXCEPT !["trig"] = NoResult]
    /\ UNCHANGED << in_buf, ser, mqtt_client, handlers, running, serial_lock,
                    read_age, push_age, gate_age, sleep_left, inbox,
                    signalled, n_ext >>

\* a callback that returns without the acknowledgment
TrigAck_Silent ==
    /\ Alive
    /\ pc["trig"] = "t_ack"
    /\ cb_msg' = NoMsg
    /\ pc' = [pc EXCEPT !["trig"] = "t_idle"]
    /\ UNCHANGED << in_buf, ser, mqtt_client, handlers, running, serial_lock,
                    read_age, result, push_age, gate_age, sleep_left, inbox,
                    cb_log, value_out, signalled, n_ext >>

\* line 195: publish "0" to the trigger topic; the broker sends it back to
\* the subscription of the bridge
TrigAck ==
    /\ Alive
    /\ pc["trig"] = "t_ack"
    /\ cb_log' = Append(cb_log, "ack")
    /\ inbox' = IF mqtt_client = "connected" THEN Append(inbox, "0") ELSE inbox
    /\ cb_msg' = NoMsg
    /\ pc' = [pc EXCEPT !["trig"] = "t_idle"]
    /\ UNCHANGED << in_buf, ser, mqtt_client, handlers, running, serial_lock,
                    read_age, result, push_age, gate_age, sleep_left,
                    value_out, signalled, n_ext >>

(***************************************************************************)
(* Specification                                                           *)
(***************************************************************************)
Next ==
    \/ Tick
    \/ \E chunk \in DeviceChunks : DeviceWrite(chunk)
    \/ \E payload \in Payloads : ExternalPublish(payload)
    \/ \E sig \in Signals : Signal(sig)
    \/ \E self \in Threads : ReadDistance(self)
    \/ CreateSerial
    \/ CreateMqtt
    \/ RegisterSignals
    \/ RunStart
    \/ LoopStart
    \/ While
    \/ MainResult
    \/ Stamp
    \/ Sleep
    \/ CloseSer
    \/ Disconnect
    \/ Deliver
    \/ Callback
    \/ TrigResult
    \/ TrigAck

Spec == Init /\ [][Next]_vars

TypeOK ==
    /\ Len(in_buf) <= MaxBuf
    /\ ser \in {"none", "open", "closed"}
    /\ mqtt_client \in {"none", "connected", "disconnected"}
    /\ serial_lock \in {"free"} \cup Threads
    /\ signalled \in BOOLEAN
    /\ push_age \in 0..Ancient(MqttPushInterval)
    /\ sleep_left \in 0..TIMEOUT_ERROR_SLEEP_SECONDS
    /\ value_out \in {0} \cup (READ_MIN_VALUE_MM..READ_MAX_VALUE_MM)

(***************************************************************************)
(* Scheduling.  The clock advances; the interpreter keeps running the main *)
(* thread and the network thread, so a thread that can take its next step  *)
(* takes it; the MQTT client hands over a message that has arrived; a      *)
(* thread that waits for serial_lock gets it when the lock is released     *)
(* again and again.  The device, the other MQTT clients and the signals    *)
(* owe nothing.                                                            *)
(***************************************************************************)
MainStep ==
    \/ CreateSerial
    \/ CreateMqtt
    \/ RegisterSignals
    \/ RunStart
    \/ LoopStart
    \/ While
    \/ MainResult
    \/ Stamp
    \/ Sleep
    \/ CloseSer
    \/ Disconnect

TrigStep ==
    \/ Deliver
    \/ Callback
    \/ TrigResult
    \/ TrigAck

Fairness ==
    /\ WF_vars(Tick)
    /\ WF_vars(MainStep)
    /\ WF_vars(TrigStep)
    /\ \A t \in Threads :
          /\ SF_vars(Lock(t))
          /\ WF_vars(Poll(t) \/ PollSleep(t) \/ Drain(t))

FairSpec == Spec /\ Fairness

(***************************************************************************)
(* The decoder as a function of the buffer.  Lines 149-179 depend on       *)
(* data_buffer alone.  DecoderSpec starts with a reader that holds the     *)
(* lock and has read the bytes in_buf at line 148, and decodes them; the   *)
(* buffer stays in in_buf, next to the outcome in result["main"].          *)
(***************************************************************************)
\* byte values at and next to the limits: 0, 30 = 0x001E, 4500 = 0x1194
ByteSamples == {0, 1, 17, 29, 30, 148, 149, 254, 255}

\* bytes of which buffers of every length up to MaxDecLen are built: the
\* header, and data bytes that give frames with and without a matching
\* checksum, below, inside and above the limits
BufferBytes == {0, 29, 30, 255}

\* distances of the frames of a train; 255, 511 and 1279 have the data byte
\* 0xFF, 511 also the checksum 0xFF
TrainDistances == {30, 255, 511, 1279, 4500}

\* every frame the sensor can send
AllFrames == { FrameForDistance(d) : d \in 0..DISTANCE_MASK }

\* frames whose fourth byte is off by delta
CorruptFrames ==
    { <<START_SEQUENCE_BYTE, h, l,
        (START_SEQUENCE_BYTE + h + l + delta) % 256>> :
         h \in ByteSamples, l \in ByteSamples, delta \in 1..255 }

\* every buffer of at most MaxDecLen bytes over BufferBytes
SmallBuffers == UNION { [1..n -> BufferBytes] : n \in 0..MaxDecLen }

\* k complete frames followed by the first r bytes of the next frame: what a
\* drain returns when it happens while a frame is on the wire
FrameTrain(ds, k, next, r) ==
    [i \in 1..(FRAME_BYTES * k + r) |->
        IF i <= FRAME_BYTES * k
        THEN FrameForDistance(ds[((i - 1) \div FRAME_BYTES) + 1])
                [((i - 1) % FRAME_BYTES) + 1]
        ELSE FrameForDistance(next)[i - FRAME_BYTES * k]]

FrameTrains ==
    UNION { { FrameTrain(ds, k, next, r) :
                 ds \in [1..k -> TrainDistances],
                 next \in TrainDistances,
                 r \in 1..(FRAME_BYTES - 1) } : k \in 1..MaxFrames }

DecoderInputs == AllFrames \cup CorruptFrames \cup SmallBuffers \cup FrameTrains

DecoderInit ==
    /\ in_buf \in DecoderInputs
    /\ ser = "open"
    /\ mqtt_client = "connected"
    /\ handlers = TRUE
    /\ running = TRUE
    /\ serial_lock = "main"
    /\ pc = [t \in Threads |-> IF t = "main" THEN "decode" ELSE "t_idle"]
    /\ read_age = [t \in Threads |-> 0]
    /\ result = [t \in Threads |-> NoResult]
    /\ push_age = Ancient(MqttPushInterval)
    /\ gate_age = Never
    /\ sleep_left = 0
    /\ inbox = <<>>
    /\ cb_msg = NoMsg
    /\ cb_log = <<>>
    /\ value_out = 0
    /\ signalled = FALSE
    /\ n_ext = 0

\* lines 149-179 applied to the buffer
DecodeBuffer ==
    /\ pc["main"] = "decode"
    /\ result' = [result EXCEPT !["main"] = Decode(in_buf)]
    /\ pc' = [pc EXCEPT !["main"] = "decoded"]
    /\ UNCHANGED << in_buf, ser, mqtt_client, handlers, running, serial_lock,
                    read_age, push_age, gate_age, sleep_left, inbox, cb_msg,
                    cb_log, value_out, signalled, n_ext >>

DecoderNext == DecodeBuffer

DecoderSpec == DecoderInit /\ [][DecoderNext]_vars

(***************************************************************************)
(* Properties                                                              *)
(***************************************************************************)
\* a step of thread t that leaves position p
Leaves(t, p) == pc[t] = p /\ pc'[t] # p

\* r is a failure the callers of _read_distance recover from
IsFailure(r) == r.kind \in ValueErrors \cup {"ReadTimeout"}

\* data is a frame with header 0xFF and a matching checksum that encodes d
IsFrameOf(data, d) ==
    /\ Len(data) = 4
    /\ data[1] = 255
    /\ (data[1] + data[2] + data[3]) % 256 = data[4]
    /\ d = data[2] * 256 + data[3]

\* C1: at most one call of _read_distance is inside the wait + drain +
\* decode region at any instant, the caller inside holds the lock, and the
\* timeout clock of a caller runs only while it is inside, so that the wait
\* of a second caller starts after the first caller has left.
C1_OneReaderInRegion ==
    /\ ~(pc["main"] \in Region /\ pc["trig"] \in Region)
    /\ \A t \in Threads : pc[t] \in Region => serial_lock = t
    /\ \A t \in Threads : pc[t] \notin Region => read_age[t] = 0

\* the callback waits for the lock while the periodic loop drains a buffer
C1_Witness ==
    /\ pc["trig"] = "lock"
    /\ pc["main"] = "drain"
    /\ Len(in_buf) >= FRAME_BYTES

\* C2: every payload published to the value topic, by the periodic loop or
\* by the callback, is a distance between 30 and 4500 that was decoded from
\* a frame with header 0xFF and a matching checksum; any other drained
\* buffer gives a failure, which carries no distance and is not published.
C2_OnlyMeasurementsPublished ==
    /\ [](value_out = 0 \/ (30 <= value_out /\ value_out <= 4500))
    /\ [](\A t \in Threads :
            /\ result[t].kind = "Ok" =>
                  /\ 30 <= result[t].dist /\ result[t].dist <= 4500
                  /\ IsFrameOf(result[t].data, result[t].dist)
            /\ result[t].kind # "Ok" => result[t].dist = 0)
    /\ [][ /\ Leaves("main", "m_result") /\ pc'["main"] = "stamp" =>
                /\ result["main"].kind = "Ok"
                /\ value_out' = result["main"].dist
           /\ Leaves("trig", "t_result") /\ pc'["trig"] = "t_ack" =>
                /\ result["trig"].kind = "Ok"
                /\ value_out' = result["trig"].dist
           /\ value_out' # value_out =>
                \/ Leaves("main", "m_result") /\ pc'["main"] = "stamp"
                \/ Leaves("trig", "t_result") /\ pc'["trig"] = "t_ack"
           /\ \A t \in Threads :
                (Leaves(t, "drain") /\ result'[t].kind = "Ok") =>
                   \E i \in 1..(Len(in_buf) - 3) :
                      SubSeq(in_buf, i, i + 3) = result'[t].data ]_vars

\* both paths have published the distance 30
C2_Witness ==
    /\ value_out = 30
    /\ pc["main"] = "stamp"
    /\ cb_log = <<"value", "ack">>

\* C3 as stated: a successful periodic read is published iff the age of the
\* stored timestamp exceeds the interval, and the timestamp that is stored
\* for the publish is the clock value of that decision: when line 222 stores
\* it, the decision is no second old.
C3_StampIsDecisionTime ==
    /\ [][Leaves("main", "m_result") /\ result["main"].kind = "Ok" =>
             (pc'["main"] = "stamp") = (push_age > MqttPushInterval)]_vars
    /\ [][Leaves("main", "stamp") => (gate_age = 0 /\ push_age' = 0)]_vars

\* C3 amended: a successful periodic read is published iff the age of the
\* stored timestamp exceeds the interval (strictly); a read that is not
\* published changes neither the value topic nor the timestamp; after a
\* publish the timestamp is set to the clock value read after the publish,
\* which is not older than the publish; the timestamp is written at no
\* other place, so the gate is open until the first periodic publish and
\* two consecutive periodic publishes are more than one interval apart.
C3_PublishGate ==
    /\ [][Leaves("main", "m_result") /\ result["main"].kind = "Ok" =>
             /\ (pc'["main"] = "stamp") = (push_age > MqttPushInterval)
             /\ pc'["main"] \in {"stamp", "sleep"}
             /\ push_age' = push_age
             /\ pc'["main"] = "stamp" =>
                   value_out' = result["main"].dist /\ gate_age' = 0
             /\ pc'["main"] = "sleep" => value_out' = value_out]_vars
    /\ [][Leaves("main", "stamp") => (gate_age >= 0 /\ push_age' = 0)]_vars
    /\ [][push_age' < push_age => Leaves("main", "stamp")]_vars
    /\ [](value_out = 0 => push_age = Ancient(MqttPushInterval))
    /\ []((pc["main"] = "stamp") = (gate_age # Never))

\* after a periodic publish, a successful read arrives exactly one interval
\* after the stored timestamp
C3_Witness ==
    /\ pc["main"] = "m_result"
    /\ result["main"].kind = "Ok"
    /\ push_age = MqttPushInterval
    /\ value_out = 30

\* C4: a successful read of the callback is published to the value topic
\* whatever the state of the publish gate, and "0" is published to the
\* trigger topic after it; the callback never publishes "0" first or alone.
C4_ValueThenAck ==
    /\ [](cb_log \in {<<>>, <<"value">>, <<"value", "ack">>})
    /\ [](pc["trig"] = "t_ack" => cb_log = <<"value">> /\ cb_msg = "1")
    /\ [][Leaves("trig", "t_result") /\ result["trig"].kind = "Ok" =>
             /\ pc'["trig"] = "t_ack"
             /\ value_out' = result["trig"].dist
             /\ cb_log' = <<"value">>
             /\ inbox' = inbox]_vars
    /\ [][Leaves("trig", "t_ack") =>
             /\ cb_log' = <<"value", "ack">>
             /\ mqtt_client = "connected" => inbox' = Append(inbox, "0")]_vars
    /\ [][(Len(inbox') > Len(inbox) /\ inbox'[Len(inbox')] = "0") =>
             Leaves("trig", "t_ack")]_vars

\* the callback has published a value while the publish gate is closed
C4_Witness ==
    /\ pc["trig"] = "t_ack"
    /\ cb_log = <<"value">>
    /\ pc["main"] = "sleep"
    /\ push_age = 0

\* C5: no step of the callback changes the periodic timestamp; it is set
\* only by the periodic loop after a periodic publish, and otherwise only
\* ages; the decision of the publish gate depends on that timestamp alone.
C5_TimestampOwnedByLoop ==
    /\ [][pc'["trig"] # pc["trig"] /\ pc["trig"] # "t_off" =>
             push_age' = push_age /\ gate_age' = gate_age]_vars
    /\ [][push_age' # push_age =>
             \/ Leaves("main", "stamp") /\ push_age' = 0
             \/ /\ push_age' = Older(push_age, MqttPushInterval)
                /\ pc' = pc]_vars
    /\ [][Leaves("main", "m_result") /\ result["main"].kind = "Ok" =>
             (value_out' = result["main"].dist /\ pc'["main"] = "stamp")
                = (push_age > MqttPushInterval)]_vars

\* the callback has published while the periodic interval is running
C5_Witness ==
    /\ pc["trig"] = "t_ack"
    /\ pc["main"] = "sleep"
    /\ push_age = 1

\* C6: when the read of the callback fails with ReadTimeout or a decode
\* failure, the callback returns without publishing to the value topic or
\* the trigger topic, and both threads go on.
C6_FailedTriggerPublishesNothing ==
    [][Leaves("trig", "t_result") /\ IsFailure(result["trig"]) =>
          /\ pc'["trig"] = "t_idle"
          /\ pc'["main"] = pc["main"]
          /\ cb_log = <<>> /\ cb_log' = <<>>
          /\ value_out' = value_out
          /\ inbox' = inbox
          /\ running' = running
          /\ Alive']_vars

\* the read of the callback has timed out
C6_Witness ==
    /\ pc["trig"] = "t_result"
    /\ result["trig"].kind = "ReadTimeout"
    /\ cb_msg = "1"

\* C7: a message whose payload is not "1", the acknowledgment "0" of the
\* bridge included, makes the callback return at once: no read, no lock, no
\* publish; the callback reads only while it handles a payload "1".
C7_OtherPayloadsIgnored ==
    /\ [](pc["trig"] \in {"lock", "t_result", "t_ack"} \cup Region =>
             cb_msg = "1")
    /\ [][Leaves("trig", "t_callback") /\ cb_msg # "1" =>
             /\ pc'["trig"] = "t_idle"
             /\ serial_lock' = serial_lock
             /\ in_buf' = in_buf
             /\ read_age' = read_age
             /\ result' = result
             /\ value_out' = value_out
             /\ cb_log' = cb_log /\ cb_log = <<>>
             /\ inbox' = inbox]_vars

\* the acknowledgment of the bridge was delivered to its own callback
C7_Witness ==
    /\ pc["trig"] = "t_callback"
    /\ cb_msg = "0"

\* C8: _read_distance releases the lock on every outcome: a thread holds
\* the lock exactly while it is inside the region, and it is back at its
\* caller with a Measurement, a decode failure or ReadTimeout only with the
\* lock released; ReadTimeout is raised only after a poll that found fewer
\* than 4 bytes and more than the timeout after the start of the wait.
C8_LockReleasedOnEveryOutcome ==
    /\ [](\A t \in Threads : (serial_lock = t) = (pc[t] \in Region))
    /\ [](\A t \in Threads :
            pc[t] = ReturnPc(t) =>
               /\ serial_lock # t
               /\ result[t].kind \in
                     ValueErrors \cup {"Ok", "ReadTimeout", "SerialError"})
    /\ [][\A t \in Threads :
            (Leaves(t, "pollsleep") /\ pc'[t] = ReturnPc(t)) =>
               /\ result'[t].kind = "ReadTimeout"
               /\ read_age[t] > READ_TIMEOUT_SECONDS
               /\ serial_lock' = "free"]_vars
    /\ [][\A t \in Threads :
            (result'[t].kind = "ReadTimeout" /\ result[t].kind # "ReadTimeout")
               => Leaves(t, "pollsleep")]_vars

\* the periodic read has timed out and the lock is free
C8_Witness ==
    /\ pc["main"] = "m_result"
    /\ result["main"].kind = "ReadTimeout"
    /\ serial_lock = "free"
    /\ pc["trig"] = "lock"

\* C9: in the periodic loop a ReadTimeout or a decode failure publishes
\* nothing and starts a pause of 5 s (timeout) or 1 s (decode failure), a
\* success a pause of READ_INTERVAL; after the pause the loop is back at its
\* condition and starts the next read if the run flag is true.
C9_FailuresKeepLoopRunning ==
    /\ [][Leaves("main", "m_result") /\ IsFailure(result["main"]) =>
             /\ pc'["main"] = "sleep"
             /\ sleep_left' = IF result["main"].kind = "ReadTimeout"
                              THEN 5 ELSE 1
             /\ value_out' = value_out
             /\ push_age' = push_age
             /\ running' = running]_vars
    /\ [][Leaves("main", "m_result") /\ result["main"].kind = "Ok" =>
             /\ pc'["main"] \in {"stamp", "sleep"}
             /\ pc'["main"] = "sleep" => sleep_left' = READ_INTERVAL_SECONDS]_vars
    /\ [][Leaves("main", "stamp") =>
             pc'["main"] = "sleep" /\ sleep_left' = READ_INTERVAL_SECONDS]_vars
    /\ [][Leaves("main", "sleep") =>
             sleep_left = 0 /\ pc'["main"] = "while"]_vars
    /\ [][Leaves("main", "while") =>
             pc'["main"] = IF running THEN "lock" ELSE "close_ser"]_vars

\* the loop starts its next read after the pause that follows a timeout
C9_Witness ==
    /\ pc["main"] = "sleep"
    /\ sleep_left = TIMEOUT_ERROR_SLEEP_SECONDS
    /\ running

\* C10 as stated: once a termination signal was delivered with the handlers
\* registered, the run flag is false and stays false, and the loop condition
\* then ends the loop.
C10_RunFlagStaysFalse ==
    /\ [][signalled => ~running']_vars
    /\ [][(signalled /\ Leaves("main", "while")) =>
             pc'["main"] = "close_ser"]_vars

\* the stage of the controller the main thread is in: Starting (0),
\* Running (1), Stopping (2), Stopped (3); 4 after an uncaught exception
Stage(p) ==
    IF p \in {"create_serial", "create_mqtt", "register_signals", "run"}
    THEN 0
    ELSE IF p \in {"close_ser", "disconnect"} THEN 2
    ELSE IF p = "stopped" THEN 3
    ELSE IF p = "crashed" THEN 4
    ELSE 1

\* C11 as stated: the serial port is never closed while a reader holds the
\* lock: a call of _read_distance that is in flight has left the `with`
\* block before the shutdown sequence closes the port.
C11_NoCloseWhileLocked ==
    [][(ser' = "closed" /\ ser # "closed") => serial_lock = "free"]_vars

\* C12: a failure of the read in the periodic loop other than ReadTimeout
\* and the decode failures publishes nothing and takes the main thread out
\* of the loop to the shutdown sequence; from there the main thread never
\* reads or publishes again, the close of the serial port and the disconnect
\* of the MQTT client are both attempted (neither step can block), and the
\* thread ends in Stopped, where no step follows; the stage never decreases.
C12_UnexpectedFailureStops ==
    /\ [][(Leaves("main", "m_result")
              /\ result["main"].kind \notin
                    {"Ok", "ReadTimeout"} \cup ValueErrors) =>
             /\ pc'["main"] = "close_ser"
             /\ value_out' = value_out
             /\ push_age' = push_age
             /\ in_buf' = in_buf]_vars
    /\ [][Stage(pc'["main"]) >= Stage(pc["main"])]_vars
    /\ [][Stage(pc["main"]) >= 2 =>
             /\ serial_lock' = "main" => serial_lock = "main"
             /\ value_out' # value_out => Leaves("trig", "t_result")
             /\ pc'["main"] \in {"close_ser", "disconnect", "stopped"}]_vars
    /\ [][Leaves("main", "close_ser") => pc'["main"] = "disconnect"]_vars
    /\ [][Leaves("main", "disconnect") => pc'["main"] = "stopped"]_vars
    /\ [](pc["main"] = "close_ser" => ENABLED CloseSer)
    /\ [](pc["main"] = "disconnect" => ENABLED Disconnect)
    /\ [][pc["main"] # "stopped"]_vars

\* run() has returned after a failure of the read: no signal was delivered
\* and the run flag is still true
C12_Witness ==
    /\ pc["main"] = "stopped"
    /\ pc["trig"] # "t_off"
    /\ running
    /\ ~signalled

\* C13: in the shutdown sequence the close of the serial port is attempted
\* once and, whether it succeeds or raises, is followed by one attempt to
\* disconnect the MQTT client, which, whether it succeeds or raises, is
\* followed by Stopped; the port is closed and the client is disconnected
\* by these two steps only, and neither step is taken a second time.
C13_IndependentReleases ==
    /\ [][Leaves("main", "close_ser") =>
             /\ pc'["main"] = "disconnect"
             /\ ser' \in {ser, "closed"}
             /\ mqtt_client' = mqtt_client]_vars
    /\ [][Leaves("main", "disconnect") =>
             /\ pc'["main"] = "stopped"
             /\ mqtt_client' \in {mqtt_client, "disconnected"}
             /\ ser' = ser]_vars
    /\ [][(pc'["main"] = "close_ser" /\ pc["main"] # "close_ser") =>
             pc["main"] \in {"loop_start", "while", "m_result"}]_vars
    /\ [][(pc'["main"] = "disconnect" /\ pc["main"] # "disconnect") =>
             pc["main"] = "close_ser"]_vars
    /\ [][(pc'["main"] = "stopped" /\ pc["main"] # "stopped") =>
             pc["main"] = "disconnect"]_vars
    /\ [][(ser' = "closed" /\ ser # "closed") =>
             Leaves("main", "close_ser")]_vars
    /\ [][(mqtt_client' = "disconnected" /\ mqtt_client # "disconnected") =>
             Leaves("main", "disconnect")]_vars

\* the close of the serial port has failed, the MQTT client was disconnected
\* all the same, and run() has returned
C13_Witness ==
    /\ pc["main"] = "stopped"
    /\ ser = "open"
    /\ mqtt_client = "disconnected"

\* C14 as stated: a failure while the serial port is opened or while the
\* MQTT client connects enters the shutdown sequence, so that the process
\* does not end with a port that is open and was never closed.
C14_StartFailureReleases ==
    /\ [][(Leaves("main", "create_serial") \/ Leaves("main", "create_mqtt")) =>
             pc'["main"] \in {"create_mqtt", "register_signals",
                              "close_ser"}]_vars
    /\ [](pc["main"] = "crashed" => ser # "open")

\* the outcome the specification of the decoder gives for one candidate
\* frame f of 4 bytes: the kind of the result
FrameKind(f) ==
    LET d == f[2] * 256 + f[3]
    IN  IF (f[1] + f[2] + f[3]) % 256 # f[4] THEN "ChecksumMismatch"
        ELSE IF d < 30 THEN "BelowLowerLimit"
        ELSE IF d > 4500 THEN "AboveUpperLimit"
        ELSE "Ok"

\* and the distance of the result: that of f for a Measurement, none else
FrameDist(f) == IF FrameKind(f) = "Ok" THEN f[2] * 256 + f[3] ELSE 0

\* the frame [0xFF, d>>8, d&0xFF, (0xFF + (d>>8) + (d&0xFF)) & 0xFF]
ClaimFrame(d) ==
    << 255, d \div 256, d % 256, (255 + (d \div 256) + (d % 256)) % 256 >>

\* positions (from 1) of a header byte with 4 bytes from there on
HeaderPositions(b) == { i \in 1..(Len(b) - 3) : b[i] = 255 }

\* C15: for a buffer with several bytes 0xFF and at least one of them at a
\* position with 4 bytes from there on, the outcome of the decoder is the
\* outcome of the 4 bytes at the largest such position, whatever stands at
\* the earlier header positions; 0xFF in the last three positions is skipped.
C15_RightmostHeaderDecides ==
    (/\ pc["main"] = "decoded"
     /\ Cardinality({ i \in 1..Len(in_buf) : in_buf[i] = 255 }) >= 2
     /\ HeaderPositions(in_buf) # {}) =>
        \E i \in HeaderPositions(in_buf) :
           /\ \A j \in HeaderPositions(in_buf) : j <= i
           /\ LET f == << in_buf[i], in_buf[i + 1], in_buf[i + 2],
                          in_buf[i + 3] >>
              IN  /\ result["main"].kind = FrameKind(f)
                  /\ result["main"].dist = FrameDist(f)

\* the frame of 30 mm at the rightmost header position was decoded, the
\* frame of 0 mm at the first header position was not
C15_Witness ==
    /\ pc["main"] = "decoded"
    /\ in_buf = <<255, 0, 0, 255, 0, 30, 29>>
    /\ result["main"].kind = "Ok"
    /\ result["main"].dist = 30

\* C16: the decoder applied to the frame that encodes d, for every d in
\* 0..65535, returns d when 30 <= d <= 4500, fails with BelowLowerLimit when
\* d < 30 and with AboveUpperLimit when d > 4500.
C16_RoundTripAndLimits ==
    (/\ pc["main"] = "decoded"
     /\ Len(in_buf) = 4
     /\ in_buf = ClaimFrame(in_buf[2] * 256 + in_buf[3])) =>
        LET d == in_buf[2] * 256 + in_buf[3]
        IN  /\ (30 <= d /\ d <= 4500) =>
                  /\ result["main"].kind = "Ok"
                  /\ result["main"].dist = d
            /\ d < 30 => result["main"] = Failure("BelowLowerLimit")
            /\ d > 4500 => result["main"] = Failure("AboveUpperLimit")

\* the frame of the upper boundary 4500 was decoded to 4500
C16_Witness ==
    /\ pc["main"] = "decoded"
    /\ in_buf = ClaimFrame(4500)
    /\ result["main"].kind = "Ok"
    /\ result["main"].dist = 4500

\* C17: the decoder applied to [0xFF, h, l, c] with c different from
\* (0xFF + h + l) mod 256 fails with ChecksumMismatch, also when the
\* distance h * 256 + l is outside the limits; it returns no distance.
C17_CorruptFrameRejected ==
    (/\ pc["main"] = "decoded"
     /\ Len(in_buf) = 4
     /\ in_buf[1] = 255
     /\ in_buf[4] # (255 + in_buf[2] + in_buf[3]) % 256) =>
        /\ result["main"].kind = "ChecksumMismatch"
        /\ result["main"].dist = 0

\* a corrupted frame whose distance 0xFFFF is above the upper limit was
\* rejected for its checksum
C17_Witness ==
    /\ pc["main"] = "decoded"
    /\ in_buf = <<255, 255, 255, 0>>
    /\ result["main"].kind = "ChecksumMismatch"

\* C18: the decoder fails with InsufficientData for every buffer of fewer
\* than 4 bytes and with NoStartSequence for every buffer of 4 bytes or more
\* that has no 0xFF at a position with 4 bytes from there on; neither
\* result carries a distance.
C18_ShortOrHeaderless ==
    pc["main"] = "decoded" =>
       /\ Len(in_buf) < 4 => result["main"] = Failure("InsufficientData")
       /\ (Len(in_buf) >= 4 /\ HeaderPositions(in_buf) = {}) =>
             result["main"] = Failure("NoStartSequence")

\* a buffer of 7 bytes whose only 0xFF is in the last three positions was
\* rejected for want of a start sequence
C18_Witness ==
    /\ pc["main"] = "decoded"
    /\ in_buf = <<0, 30, 29, 0, 255, 0, 30>>
    /\ result["main"].kind = "NoStartSequence"

\* b is made of one or more complete frames with a matching checksum and a
\* distance inside the limits, followed by the first 1 to 3 bytes of a frame
IsFrameTrain(b) ==
    LET k == Len(b) \div 4
        r == Len(b) % 4
    IN  /\ k >= 1
        /\ r >= 1
        /\ \A j \in 0..(k - 1) :
              FrameKind(<< b[4 * j + 1], b[4 * j + 2], b[4 * j + 3],
                           b[4 * j + 4] >>) = "Ok"
        /\ b[4 * k + 1] = 255

\* C19 as stated: for every buffer made of complete, valid, in-range frames
\* followed by an incomplete frame of 1 to 3 bytes, the decoder returns the
\* distance of the last complete frame.
C19_LastCompleteFrameWins ==
    (pc["main"] = "decoded" /\ IsFrameTrain(in_buf)) =>
       LET k == Len(in_buf) \div 4
       IN  /\ result["main"].kind = "Ok"
           /\ result["main"].dist = in_buf[4 * k - 2] * 256 + in_buf[4 * k - 1]

\* the outcomes of _read_distance that follow the drain of line 148
DecodeOutcomes == {"Ok"} \cup ValueErrors

\* a call of _read_distance touches the input buffer in its drain only: a
\* step that removes bytes is the drain of some thread, which ends the call;
\* the drain happens with 4 bytes or more available and, whatever the decode
\* outcome, leaves the buffer empty, so that the bytes before and after the
\* selected frame are gone and no later read sees a byte again
DrainEffect ==
    /\ [][\A t \in Threads : Leaves(t, "poll") /\ pc'[t] = "pollsleep" =>
             Len(in_buf) < FRAME_BYTES /\ in_buf' = in_buf]_vars
    /\ [][\A t \in Threads :
             (Leaves(t, "drain") /\ result'[t].kind \in DecodeOutcomes) =>
                /\ Len(in_buf) >= FRAME_BYTES
                /\ result'[t] = Decode(in_buf)
                /\ in_buf' = <<>>
                /\ pc'[t] = ReturnPc(t)]_vars
    /\ [][\A t \in Threads :
             (result'[t] # result[t] /\ result'[t].kind \in DecodeOutcomes) =>
                Leaves(t, "drain")]_vars
    /\ [][(\A i \in 1..Len(in_buf) :
              Len(in_buf') >= i /\ in_buf'[i] = in_buf[i])
          \/ (\E t \in Threads : Leaves(t, "drain"))]_vars

\* C20 as stated: a call that ends in ReadTimeout leaves the buffered bytes
\* in place, and these are fewer than 4; every other call removes every byte
\* that is available at its drain.
C20_TimeoutLeavesShortBuffer ==
    /\ DrainEffect
    /\ [][\A t \in Threads :
             (Leaves(t, "pollsleep") /\ result'[t].kind = "ReadTimeout") =>
                in_buf' = in_buf /\ Len(in_buf) < FRAME_BYTES]_vars

\* C20 amended: a call that ends in ReadTimeout leaves the buffered bytes in
\* place; its last poll found fewer than 4 bytes, but bytes that arrived
\* during the last polling sleep are in the buffer too; every other call
\* removes every byte that is available at its drain.
C20_SingleDrain ==
    /\ DrainEffect
    /\ [][\A t \in Threads :
             (Leaves(t, "pollsleep") /\ result'[t].kind = "ReadTimeout") =>
                in_buf' = in_buf]_vars

\* the periodic read has timed out and the two bytes in the input buffer
\* are still there
C20_Witness ==
    /\ pc["main"] = "m_result"
    /\ result["main"].kind = "ReadTimeout"
    /\ in_buf = <<0, 0>>

====
